---- MODULE Spec2Model ----
(***************************************************************************)
(* The F1 dashboard backend: the HTTP routes (registerRoutes, in its       *)
(* asyncHandler form and in its try/catch form), the F1Service process     *)
(* wrapper (getSessionData, getTelemetryData, getAvailableGPs) and the     *)
(* session store the routes read and write.                                *)
(***************************************************************************)
EXTENDS Integers, Sequences, FiniteSets, TLC

(***************************************************************************)
(* Bounds of the model.                                                    *)
(***************************************************************************)
\* number of HTTP requests a behaviour of the session race (SpecRace) carries
MaxReqs == 3
\* number of HTTP requests a behaviour over all the routes (Spec) carries
MaxMixed == 2
\* number of "data" events a process emits on stdout and stderr together
MaxChunks == 1
\* number of laps of the session data the dashboard's analysis renders
MaxLaps == 3

(***************************************************************************)
(* Program constants.                                                      *)
(***************************************************************************)
MinYear == 2018
MaxYear == 2025

Reqs == 1..MaxReqs

(***************************************************************************)
(* JSON values of a request body.  A number is kept as its integer part    *)
(* and one decimal digit, so that 2025.5 and 2025 are different values.    *)
(***************************************************************************)
Undefined == [t |-> "undefined", n |-> 0, frac |-> 0, s |-> "", items |-> <<>>]
Num(i) == [t |-> "number", n |-> i, frac |-> 0, s |-> "", items |-> <<>>]
NumFrac(i, f) == [t |-> "number", n |-> i, frac |-> f, s |-> "", items |-> <<>>]
Str(x) == [t |-> "string", n |-> 0, frac |-> 0, s |-> x, items |-> <<>>]
Arr(xs) == [t |-> "array", n |-> 0, frac |-> 0, s |-> "", items |-> xs]

\* Number.prototype.toString / template-literal conversion of a body field
JsToString(v) ==
  CASE v.t = "number" ->
         IF v.frac = 0 THEN ToString(v.n)
         ELSE ToString(v.n) \o "." \o ToString(v.frac)
    [] v.t = "string" -> v.s
    [] v.t = "undefined" -> "undefined"
    [] OTHER -> "object"

\* v >= k and v <= k for a JSON number v and an integer k
NumGe(v, k) == v.n >= k
NumLe(v, k) == v.n < k \/ (v.n = k /\ v.frac = 0)

(***************************************************************************)
(* The zod schemas of the session and telemetry routes.                    *)
(***************************************************************************)
\* z.number().min(lo).max(hi)
ZNumberMinMax(v, lo, hi) == v.t = "number" /\ NumGe(v, lo) /\ NumLe(v, hi)
\* z.number().min(lo)
ZNumberMin(v, lo) == v.t = "number" /\ NumGe(v, lo)
\* z.string().min(1)
ZStringMin1(v) == v.t = "string" /\ v.s # ""
\* z.string().optional()
ZStringOptional(v) == v.t \in {"string", "undefined"}
\* z.number().optional()
ZNumberOptional(v) == v.t \in {"number", "undefined"}
\* z.array(z.string()).optional(); the items of an array are strings or the
\* number marker "#" standing for an item that is not a string
ZStringArrayOptional(v) ==
  \/ v.t = "undefined"
  \/ v.t = "array" /\ \A i \in 1..Len(v.items) : v.items[i] # "#"

sessionSchema(b) ==
  /\ ZNumberMinMax(b.year, MinYear, MaxYear)
  /\ ZStringMin1(b.gp)
  /\ ZStringMin1(b.session)
  /\ ZStringArrayOptional(b.drivers)

telemetrySchema(b) ==
  /\ ZNumberMinMax(b.year, MinYear, MaxYear)
  /\ ZStringMin1(b.gp)
  /\ ZStringMin1(b.session)
  /\ ZStringMin1(b.driver1)
  /\ ZNumberMin(b.lap1, 1)
  /\ ZStringOptional(b.driver2)
  /\ ZNumberOptional(b.lap2)

(***************************************************************************)
(* parseInt(req.params.year): the path parameter is a sequence of          *)
(* characters; parseInt skips leading blanks, reads an optional sign and   *)
(* the longest prefix of decimal digits, and yields NaN when there is none.*)
(***************************************************************************)
Digits == {"0", "1", "2", "3", "4", "5", "6", "7", "8", "9"}
DigitVal(c) ==
  CASE c = "0" -> 0 [] c = "1" -> 1 [] c = "2" -> 2 [] c = "3" -> 3
    [] c = "4" -> 4 [] c = "5" -> 5 [] c = "6" -> 6 [] c = "7" -> 7
    [] c = "8" -> 8 [] c = "9" -> 9

RECURSIVE SkipBlanks(_)
SkipBlanks(cs) ==
  IF cs # <<>> /\ Head(cs) = " " THEN SkipBlanks(Tail(cs)) ELSE cs

RECURSIVE DigitPrefix(_)
DigitPrefix(cs) ==
  IF cs # <<>> /\ Head(cs) \in Digits
  THEN <<Head(cs)>> \o DigitPrefix(Tail(cs))
  ELSE <<>>

RECURSIVE DecimalValue(_, _)
DecimalValue(ds, acc) ==
  IF ds = <<>> THEN acc ELSE DecimalValue(Tail(ds), 10 * acc + DigitVal(Head(ds)))

\* parseInt: [nan |-> TRUE] or [nan |-> FALSE, n |-> the integer]
ParseInt(cs) ==
  LET t == SkipBlanks(cs)
      neg == t # <<>> /\ Head(t) = "-"
      u == IF t # <<>> /\ Head(t) \in {"-", "+"} THEN Tail(t) ELSE t
      ds == DigitPrefix(u)
  IN IF ds = <<>>
     THEN [nan |-> TRUE, n |-> 0]
     ELSE [nan |-> FALSE,
           n |-> IF neg THEN 0 - DecimalValue(ds, 0) ELSE DecimalValue(ds, 0)]

\* the guard of GET /api/f1/gps/:year
GpsYearRejected(cs) ==
  LET y == ParseInt(cs)
  IN y.nan \/ y.n < MinYear \/ y.n > MaxYear

(***************************************************************************)
(* Payloads: the JSON documents the Python script can print.  sessionData  *)
(* is used by the route only through its laps array, so a payload is its   *)
(* identity (tag), its laps, and whether laps is there to be iterated.     *)
(***************************************************************************)
Lap(d, k, pb) == [driver |-> d, lapNumber |-> k, isPersonalBest |-> pb]

NoPayload == [tag |-> "", laps |-> <<>>, lapsIterable |-> FALSE]
PayloadA ==
  [tag |-> "{A}", laps |-> <<Lap("VER", 1, TRUE), Lap("VER", 2, FALSE)>>,
   lapsIterable |-> TRUE]
PayloadB == [tag |-> "{B}", laps |-> <<Lap("HAM", 1, FALSE)>>, lapsIterable |-> TRUE]
\* a JSON document without a laps array, such as {"error": "..."}
PayloadE == [tag |-> "{E}", laps |-> <<>>, lapsIterable |-> FALSE]
Payloads == {PayloadA, PayloadB, PayloadE}

\* the text of each payload as the script prints it
JsonTexts == {p.tag : p \in Payloads}
PayloadOfText(t) == CHOOSE p \in Payloads : p.tag = t

\* what a process can write in one "data" event: a JSON document, blanks,
\* or a logging line
StdoutChunks == JsonTexts \cup {" ", "log"}
StderrChunks == {"driver not found"}

RECURSIVE Concat(_)
Concat(cs) == IF cs = <<>> THEN "" ELSE Head(cs) \o Concat(Tail(cs))

\* dataString.trim(): the chunks that are not blank
Trim(data) == SelectSeq(data, LAMBDA c : c # " ")

\* !dataString || dataString.trim() === ''
IsBlank(data) == Trim(data) = <<>>

\* JSON.parse(dataString) succeeds on exactly one JSON document
JsonParses(data) == Len(Trim(data)) = 1 /\ Trim(data)[1] \in JsonTexts
JsonParse(data) == PayloadOfText(Trim(data)[1])

\* The message of the SyntaxError JSON.parse throws is the runtime's, kept
\* as its parts: on blank text it reports the end of the input; otherwise
\* older runtimes name the token and its position, newer ones also quote the
\* text.  Both are outcomes of the same code.
SyntaxErrorMessages(data) ==
  IF IsBlank(data)
  THEN { <<"Unexpected end of JSON input">> }
  ELSE { <<"Unexpected token in JSON at position 0">>,
         <<"Unexpected token, \"", Concat(data), "\" is not valid JSON">> }

(***************************************************************************)
(* Errors.  An Error is its message, kept as the parts the template        *)
(* literal joins; zod marks a ZodError.                                    *)
(***************************************************************************)
NoError == [zod |-> FALSE, message |-> <<>>]
Err(parts) == [zod |-> FALSE, message |-> parts]
ZodError == [zod |-> TRUE, message |-> <<"Invalid request parameters">>]

\* the name each F1Service method gives its process in its messages
ProcessName(op) ==
  CASE op = "session" -> "FastF1 process"
    [] op = "telemetry" -> "FastF1 telemetry process"
    [] op = "gps" -> "FastF1 GP fetch"
ScriptName(op) ==
  CASE op = "session" -> "FastF1 script"
    [] op = "telemetry" -> "FastF1 telemetry script"
    [] op = "gps" -> "FastF1 GP fetch script"
ResponseName(op) ==
  CASE op = "session" -> "FastF1 response"
    [] op = "telemetry" -> "FastF1 telemetry response"
    [] op = "gps" -> "FastF1 GP response"

SpawnError(msg) == Err(<<"Failed to spawn Python process: ", msg>>)
\* `... failed with code ${code}: ${errorString || 'Unknown error'}`
NonZeroExitError(op, code, errorString) ==
  Err(<<ProcessName(op) \o " failed with code ", ToString(code), ": ",
        IF errorString = "" THEN "Unknown error" ELSE errorString>>)
EmptyOutputError(op) == Err(<<ScriptName(op) \o " returned empty output">>)
\* `Failed to parse ...: ${error.message}`
ParseError(op, msg) == Err(<<"Failed to parse " \o ResponseName(op) \o ": ">> \o msg)

(***************************************************************************)
(* Promises of the F1Service methods: settled once, later resolve/reject   *)
(* calls are ignored.                                                      *)
(***************************************************************************)
Pending == [state |-> "pending", value |-> NoPayload, error |-> NoError]
Resolved(v) == [state |-> "resolved", value |-> v, error |-> NoError]
Rejected(e) == [state |-> "rejected", value |-> NoPayload, error |-> e]
\* mutant: a promise that every resolve/reject call settles again
SettleLastWins(p, outcome) == outcome

Settle(p, outcome) == IF p.state = "pending" THEN outcome ELSE p

\* mutant: a close handler that looks at stdout before the exit code
CloseOutcomesStdoutFirst(op, code, dataString, errorString) ==
  IF JsonParses(dataString)
  THEN {Resolved(JsonParse(dataString))}
  ELSE IF code # 0
       THEN {Rejected(NonZeroExitError(op, code, errorString))}
       ELSE IF IsBlank(dataString)
            THEN {Rejected(EmptyOutputError(op))}
            ELSE {Rejected(ParseError(op, m)) : m \in SyntaxErrorMessages(dataString)}

(***************************************************************************)
(* The "close" handler of getSessionData, getTelemetryData and             *)
(* getAvailableGPs: the outcomes it can settle the promise with.           *)
(***************************************************************************)
CloseOutcomes(op, code, dataString, errorString) ==
  IF code # 0
  THEN {Rejected(NonZeroExitError(op, code, errorString))}
  ELSE IF IsBlank(dataString)
       THEN {Rejected(EmptyOutputError(op))}
       ELSE IF JsonParses(dataString)
            THEN {Resolved(JsonParse(dataString))}
            ELSE {Rejected(ParseError(op, m)) : m \in SyntaxErrorMessages(dataString)}

(***************************************************************************)
(* Argument lists (after the script path).                                 *)
(***************************************************************************)
\* mutant: an argument list that takes the drivers last to first
SessionArgsReversed(year, gp, session, drivers) ==
  <<"session", JsToString(year), gp, session>>
    \o (IF drivers.t = "array" /\ Len(drivers.items) > 0
        THEN [i \in 1..Len(drivers.items) |->
                drivers.items[Len(drivers.items) + 1 - i]]
        ELSE <<>>)

\* getSessionData: drivers is the validated optional array
SessionArgs(year, gp, session, drivers) ==
  <<"session", JsToString(year), gp, session>>
    \o (IF drivers.t = "array" /\ Len(drivers.items) > 0 THEN drivers.items ELSE <<>>)

\* driver2 && lap2: both truthy
Truthy(v) ==
  CASE v.t = "undefined" -> FALSE
    [] v.t = "string" -> v.s # ""
    [] v.t = "number" -> ~(v.n = 0 /\ v.frac = 0)
    [] OTHER -> TRUE

\* mutant: an argument list that takes driver2 and lap2 each on its own
TelemetryArgsPushesEach(year, gp, session, driver1, lap1, driver2, lap2) ==
  <<"telemetry", JsToString(year), gp, session, driver1, JsToString(lap1)>>
    \o (IF Truthy(driver2) THEN <<driver2.s>> ELSE <<>>)
    \o (IF Truthy(lap2) THEN <<JsToString(lap2)>> ELSE <<>>)

TelemetryArgs(year, gp, session, driver1, lap1, driver2, lap2) ==
  <<"telemetry", JsToString(year), gp, session, driver1, JsToString(lap1)>>
    \o (IF Truthy(driver2) /\ Truthy(lap2)
        THEN <<driver2.s, JsToString(lap2)>> ELSE <<>>)

GpsArgs(year) == <<"gps", ToString(year)>>

\* the analysis endpoints and whether their command line takes driver and lap
AnalysisWithLap ==
  {"downforce-analysis", "corner-analysis", "brake-analysis", "tire-analysis",
   "energy-analysis", "drs-analysis"}
AnalysisNoLap ==
  {"weather-analysis", "pitstop-analysis", "strategy-analysis", "race-insights"}
AnalysisEndpoints == AnalysisWithLap \cup AnalysisNoLap

\* the words of the command line execSync runs, built from req.body
AnalysisCommand(endpoint, b) ==
  <<endpoint, JsToString(b.year), "\"" \o JsToString(b.gp) \o "\"",
    JsToString(b.session)>>
    \o (IF endpoint \in AnalysisWithLap
        THEN <<JsToString(b.driver), JsToString(b.lap)>> ELSE <<>>)

(***************************************************************************)
(* Requests.                                                               *)
(***************************************************************************)
EmptyBody ==
  [year |-> Undefined, gp |-> Undefined, session |-> Undefined,
   drivers |-> Undefined, driver1 |-> Undefined, lap1 |-> Undefined,
   driver2 |-> Undefined, lap2 |-> Undefined, driver |-> Undefined,
   lap |-> Undefined]

SessionBody(y, g, s, d) ==
  [EmptyBody EXCEPT !.year = y, !.gp = g, !.session = s, !.drivers = d]

TelemetryBody(y, g, s, d1, l1, d2, l2) ==
  [EmptyBody EXCEPT !.year = y, !.gp = g, !.session = s, !.driver1 = d1,
                    !.lap1 = l1, !.driver2 = d2, !.lap2 = l2]

AnalysisBody(y, g, s, d, l) ==
  [EmptyBody EXCEPT !.year = y, !.gp = g, !.session = s, !.driver = d, !.lap = l]

\* the request bodies the model sends to POST /api/f1/session
SessionBodies ==
  { SessionBody(Num(2023), Str("Monza"), Str("R"), Undefined),
    SessionBody(Num(2023), Str("Monza"), Str("R"), Arr(<<"VER", "HAM">>)),
    SessionBody(Num(2025), Str("Spa"), Str("Q"), Arr(<<>>)),
    SessionBody(Num(2030), Str("Monza"), Str("R"), Undefined),
    SessionBody(Num(2017), Str("Monza"), Str("R"), Undefined),
    SessionBody(NumFrac(2025, 5), Str("Monza"), Str("R"), Undefined),
    SessionBody(Str("2023"), Str("Monza"), Str("R"), Undefined),
    SessionBody(Num(2023), Str(""), Str("R"), Undefined),
    SessionBody(Num(2023), Str("Monza"), Undefined, Undefined),
    SessionBody(Num(2023), Str("Monza"), Str("R"), Arr(<<"#">>)),
    SessionBody(NumFrac(2023, 5), Str("Monza"), Str("R"), Undefined),
    SessionBody(Num(2023), Str("Monza"), Str("S"), Undefined) }

\* ... to POST /api/f1/telemetry
TelemetryBodies ==
  { TelemetryBody(Num(2023), Str("Monza"), Str("R"), Str("VER"), Num(1),
                  Undefined, Undefined),
    TelemetryBody(Num(2023), Str("Monza"), Str("R"), Str("VER"), Num(1),
                  Str("HAM"), Num(2)),
    TelemetryBody(Num(2023), Str("Monza"), Str("R"), Str("VER"), Num(1),
                  Str("HAM"), Undefined),
    TelemetryBody(Num(2023), Str("Monza"), Str("R"), Str("VER"), Num(1),
                  Undefined, Num(2)),
    TelemetryBody(Num(2026), Str("Monza"), Str("R"), Str("VER"), Num(1),
                  Undefined, Undefined),
    TelemetryBody(Num(2023), Str("Monza"), Str("R"), Undefined, Num(1),
                  Undefined, Undefined),
    TelemetryBody(Num(2023), Str("Monza"), Str("R"), Str("VER"), Num(0),
                  Undefined, Undefined) }

\* ... to the analysis endpoints
AnalysisBodies ==
  { AnalysisBody(Num(2023), Str("Monza"), Str("R"), Str("VER"), Num(1)),
    AnalysisBody(Num(2030), Str("Monza"), Str("R"), Str("VER"), Num(1)),
    EmptyBody }

\* the bodies of the session race: one key, with and without a drivers list,
\* and a body the schema rejects
RaceBodies ==
  { SessionBody(Num(2023), Str("Monza"), Str("R"), Undefined),
    SessionBody(Num(2023), Str("Monza"), Str("R"), Arr(<<"VER">>)),
    SessionBody(Num(2030), Str("Monza"), Str("R"), Undefined) }

\* the :year path parameters of GET /api/f1/gps/:year, as characters
GpsParams ==
  { <<"2", "0", "2", "3">>, <<"2", "0", "1", "8">>, <<"2", "0", "3", "0">>,
    <<"2", "0", "1", "7">>, <<"2", "0", "2", "5", ".", "5">>, <<"a", "b", "c">> }

Request(route, endpoint, body, param) ==
  [route |-> route, endpoint |-> endpoint, body |-> body, param |-> param]
NoRequest == Request("none", "", EmptyBody, <<>>)

(***************************************************************************)
(* The store.                                                              *)
(***************************************************************************)
NoRecord ==
  [id |-> 0, year |-> Undefined, gp |-> "", session |-> "", sessionData |-> NoPayload]

Range(f) == {f[i] : i \in DOMAIN f}

\* storage.getF1Session: the first record stored under the key, if any (a
\* set of at most one record)
getF1Session(store, year, gp, session) ==
  LET hits == {i \in DOMAIN store :
                 /\ store[i].year = year
                 /\ store[i].gp = gp
                 /\ store[i].session = session}
  IN {store[i] : i \in {j \in hits : \A k \in hits : j <= k}}

\* storage.createF1Session: a new record with a fresh id
createF1Session(store, year, gp, session, data) ==
  [id |-> Len(store) + 1, year |-> year, gp |-> gp, session |-> session,
   sessionData |-> data]

\* mutant: laps stored under the id the handler has before createF1Session
LapInsertBeforeCreate(sessionId, lapData) ==
  [sessionId |-> 0, driver |-> lapData.driver,
   lapNumber |-> lapData.lapNumber,
   isPersonalBest |-> IF lapData.isPersonalBest THEN "true" ELSE "false"]

\* the argument of storage.createF1Lap the route builds from one lap
LapInsert(sessionId, lapData) ==
  [sessionId |-> sessionId, driver |-> lapData.driver,
   lapNumber |-> lapData.lapNumber,
   isPersonalBest |-> IF lapData.isPersonalBest THEN "true" ELSE "false"]

(***************************************************************************)
(* Processes and responses.                                                *)
(***************************************************************************)
NoProc ==
  [state |-> "none", op |-> "", args |-> <<>>, dataString |-> <<>>,
   errorString |-> <<>>, code |-> 0]
Spawn(op, args) ==
  [state |-> "running", op |-> op, args |-> args, dataString |-> <<>>,
   errorString |-> <<>>, code |-> 0]

NoResponse ==
  [count |-> 0, status |-> 0, kind |-> "none", payload |-> NoPayload,
   message |-> <<>>]
\* res.json(data) and res.status(s).json({message | error})
SendJson(rs, data) ==
  [count |-> rs.count + 1, status |-> 200, kind |-> "json", payload |-> data,
   message |-> <<>>]
SendError(rs, status, message) ==
  [count |-> rs.count + 1, status |-> status, kind |-> "error",
   payload |-> NoPayload, message |-> message]

\* the status the route boundary answers a thrown error with: asyncHandler
\* answers 500 to every error; the try/catch routes of session and telemetry
\* answer 400 to a ZodError and 500 to the rest
ErrorStatus(v, route, e) ==
  IF v = "tryCatch" /\ route \in {"session", "telemetry"} /\ e.zod
  THEN 400
  ELSE 500

\* mutant: a route boundary that logs the error and answers nothing
CatchErrorSwallows(v, route, rs, e) == rs

\* the catch of the route boundary
CatchError(v, route, rs, e) ==
  IF v = "asyncHandler" /\ rs.count > 0
  THEN rs
  ELSE SendError(rs, ErrorStatus(v, route, e), e.message)

(***************************************************************************)
(* The dashboard: the sessionData and telemetryDrivers props it hands to   *)
(* its components, and the driver metrics FormulaAnalysis computes.        *)
(***************************************************************************)
NullSession == [isNull |-> TRUE, drivers |-> <<>>, laps |-> <<>>]
F1SessionResponse(drivers, laps) ==
  [isNull |-> FALSE, drivers |-> drivers, laps |-> laps]

NullTelemetry == [isNull |-> TRUE, driver1 |-> "", driver2 |-> Undefined]
TelemetryDrivers(driver1, driver2) ==
  [isNull |-> FALSE, driver1 |-> driver1, driver2 |-> driver2]

\* x || "" for a string that may be absent
OrEmpty(x) == IF x.t = "string" /\ x.s # "" THEN x.s ELSE ""

\* the sessions DriverComparison is shown and the drivers telemetry names
ComparisonDrivers == {"VER", "HAM", "LEC"}
ComparisonSessions ==
  { F1SessionResponse(<<"VER", "HAM", "LEC">>, <<>>),
    F1SessionResponse(<<"VER", "HAM">>, <<>>) }
TelemetryDriversValues ==
  { TelemetryDrivers(d1, d2) :
      d1 \in ComparisonDrivers,
      d2 \in {Undefined} \cup {Str(d) : d \in ComparisonDrivers} }

\* the sessions FormulaAnalysis is shown: lap times in seconds, 0 for a lap
\* without a time
AnalysisDrivers == {"VER", "HAM"}
LapTimes == {0, 80, 81, 84}
TimedLap(driver, lapTime) == [driver |-> driver, lapTime |-> lapTime]
LapLists ==
  UNION { [1..n -> {TimedLap(d, t) : d \in AnalysisDrivers, t \in LapTimes}] :
            n \in 0..MaxLaps }
AnalysisSessions ==
  { F1SessionResponse(ds, ls) :
      ds \in {<<"VER", "HAM">>, <<"HAM", "VER">>, <<"VER">>}, ls \in LapLists }

RECURSIVE SumOf(_)
SumOf(s) == IF s = <<>> THEN 0 ELSE s[1] + SumOf(Tail(s))

\* Math.min(...s); Infinity stands for the result on no numbers
Infinity == 1000000
MathMin(s) ==
  IF s = <<>> THEN Infinity
  ELSE CHOOSE x \in Range(s) : \A y \in Range(s) : x <= y

\* sessionData.laps.filter(l => l.driver === driver && l.lapTime > 0)
DriverLaps(sd, driver) ==
  SelectSeq(sd.laps, LAMBDA l : l.driver = driver /\ l.lapTime > 0)

\* one element of driverMetrics; consistency is a standard deviation, kept as
\* its square num / den with den > 0
DriverMetric(sd, driver) ==
  LET lapTimes == [i \in 1..Len(DriverLaps(sd, driver)) |->
                     DriverLaps(sd, driver)[i].lapTime]
      n == Len(lapTimes)
      sum == SumOf(lapTimes)
      squares == SumOf([i \in 1..n |-> lapTimes[i] * lapTimes[i]])
  IN [driver |-> driver,
      bestLap |-> MathMin(lapTimes),
      totalLaps |-> n,
      consistency |-> [num |-> n * squares - sum * sum, den |-> n * n]]

\* the sign of a.key - b.key, as the comparators of the sorts compute it
Compare(key, a, b) ==
  IF key = "bestLap" THEN a.bestLap - b.bestLap
  ELSE a.consistency.num * b.consistency.den
         - b.consistency.num * a.consistency.den

\* Array.prototype.sort with the comparator of key: a stable sort
RECURSIVE SortBy(_, _)
SortBy(s, key) ==
  IF s = <<>> THEN <<>>
  ELSE LET front == SortBy(SubSeq(s, 1, Len(s) - 1), key)
           x == s[Len(s)]
           k == Cardinality({i \in 1..Len(front) :
                               Compare(key, front[i], x) <= 0})
       IN SubSeq(front, 1, k) \o <<x>> \o SubSeq(front, k + 1, Len(front))

\* drivers.map(...).filter(Boolean).sort((a, b) => a.bestLap - b.bestLap)
DriverMetricsOf(sd) ==
  LET timed == SelectSeq(sd.drivers, LAMBDA d : DriverLaps(sd, d) # <<>>)
  IN SortBy([i \in 1..Len(timed) |-> DriverMetric(sd, timed[i])], "bestLap")

\* driverMetrics[i] in the source's counting from 0
At0(s, i) == s[i + 1]

\* FormulaAnalysis before its first render
NoAnalysis ==
  [sessionData |-> NullSession, showDetails |-> FALSE, at |-> "idle",
   driverMetrics |-> <<>>, bestOverallLap |-> Infinity, leaders |-> <<>>,
   gapP1P10 |-> 0]

\* DriverComparison after useState("")
NoComparison ==
  [sessionData |-> NullSession, telemetryDrivers |-> NullTelemetry,
   driver1 |-> "", driver2 |-> ""]

VARIABLES
  variant,        \* which registerRoutes is installed
  sessions,       \* the store's SessionRecords, in insertion order
  laps,           \* the store's LapRecords, in insertion order
  req,            \* req[r]: the request r carries
  pc,             \* pc[r]: where the handler of r stands
  cachedSession,  \* the handler's local cachedSession
  sessionData,    \* the handler's local sessionData
  lapIdx,         \* position of the handler's loop over sessionData.laps
  proc,           \* the process r started, with dataString and errorString
  promise,        \* the promise of the F1Service call of r
  res,            \* the response of r
  spawned,        \* number of processes r started
  blocking,       \* the request whose execSync blocks the event loop, or 0
  arrivedAfter,   \* history: the requests that were answered when r arrived
  driverComparison,  \* DriverComparison: its props and its state
  formulaAnalysis    \* FormulaAnalysis: its props, its state and its render

vars ==
  <<variant, sessions, laps, req, pc, cachedSession, sessionData, lapIdx, proc,
    promise, res, spawned, blocking, arrivedAfter, driverComparison,
    formulaAnalysis>>

\* the state of the server and the state of the dashboard
server ==
  <<variant, sessions, laps, req, pc, cachedSession, sessionData, lapIdx, proc,
    promise, res, spawned, blocking, arrivedAfter>>
client == <<driverComparison, formulaAnalysis>>

Init ==
  /\ variant \in {"asyncHandler", "tryCatch"}
  /\ sessions = <<>>
  /\ laps = <<>>
  /\ req = [r \in Reqs |-> NoRequest]
  /\ pc = [r \in Reqs |-> "idle"]
  /\ cachedSession = [r \in Reqs |-> NoRecord]
  /\ sessionData = [r \in Reqs |-> NoPayload]
  /\ lapIdx = [r \in Reqs |-> 0]
  /\ proc = [r \in Reqs |-> NoProc]
  /\ promise = [r \in Reqs |-> Pending]
  /\ res = [r \in Reqs |-> NoResponse]
  /\ spawned = [r \in Reqs |-> 0]
  /\ blocking = 0
  /\ arrivedAfter = [r \in Reqs |-> {}]
  /\ driverComparison = NoComparison
  /\ formulaAnalysis = NoAnalysis

\* requests arrive in the order of their numbers, while the event loop runs;
\* limit is the number of requests of the behaviour
Arrives(r, limit) ==
  /\ blocking = 0
  /\ pc[r] = "idle"
  /\ r <= limit
  /\ \A q \in Reqs : q < r => pc[q] # "idle"
  /\ arrivedAfter' = [arrivedAfter EXCEPT ![r] = {q \in Reqs : pc[q] = "done"}]
  /\ UNCHANGED client

CanArrive(r) == Arrives(r, MaxMixed)

\* the handler of r ends by throwing e to the route boundary
Throw(r, route, e) ==
  /\ res' = [res EXCEPT ![r] = CatchError(variant, route, res[r], e)]
  /\ pc' = [pc EXCEPT ![r] = "done"]

\* the handler of r starts a process through F1Service and awaits it
StartFetch(r, op, args) ==
  /\ proc' = [proc EXCEPT ![r] = Spawn(op, args)]
  /\ spawned' = [spawned EXCEPT ![r] = @ + 1]
  /\ pc' = [pc EXCEPT ![r] = "fetching"]

(***************************************************************************)
(* POST /api/f1/session                                                    *)
(***************************************************************************)
\* the request arrives; sessionSchema.parse, then storage.getF1Session is
\* called and awaited
PostSessionWith(r, bodies, limit) ==
  /\ Arrives(r, limit)
  /\ \E b \in bodies :
       /\ req' = [req EXCEPT ![r] = Request("session", "", b, <<>>)]
       /\ IF sessionSchema(b)
          THEN /\ pc' = [pc EXCEPT ![r] = "lookup"]
               /\ UNCHANGED res
          ELSE Throw(r, "session", ZodError)
  /\ UNCHANGED <<variant, sessions, laps, cachedSession, sessionData, lapIdx,
                 proc, promise, spawned, blocking>>

PostSession(r) == PostSessionWith(r, SessionBodies, MaxMixed)

\* mutant: a handler that fetches again when the request names drivers
SessionLookupRefetchesForDrivers(r) ==
  /\ UNCHANGED <<arrivedAfter, client>>
  /\ blocking = 0
  /\ pc[r] = "lookup"
  /\ LET b == req[r].body
         found == IF b.drivers.t = "array" THEN {}
                  ELSE getF1Session(sessions, b.year, b.gp.s, b.session.s)
     IN IF found = {}
        THEN /\ StartFetch(r, "session",
                           SessionArgs(b.year, b.gp.s, b.session.s, b.drivers))
             /\ UNCHANGED <<cachedSession, res>>
        ELSE /\ \E rec \in found :
                  /\ cachedSession' = [cachedSession EXCEPT ![r] = rec]
                  /\ res' = [res EXCEPT ![r] = SendJson(@, rec.sessionData)]
             /\ pc' = [pc EXCEPT ![r] = "done"]
             /\ UNCHANGED <<proc, spawned>>
  /\ UNCHANGED <<variant, sessions, laps, req, sessionData, lapIdx, promise,
                 blocking>>

\* getF1Session returns: a hit answers with the cached payload, a miss calls
\* f1Service.getSessionData
SessionLookup(r) ==
  /\ UNCHANGED <<arrivedAfter, client>>
  /\ blocking = 0
  /\ pc[r] = "lookup"
  /\ LET b == req[r].body
         found == getF1Session(sessions, b.year, b.gp.s, b.session.s)
     IN IF found = {}
        THEN /\ StartFetch(r, "session",
                           SessionArgs(b.year, b.gp.s, b.session.s, b.drivers))
             /\ UNCHANGED <<cachedSession, res>>
        ELSE /\ \E rec \in found :
                  /\ cachedSession' = [cachedSession EXCEPT ![r] = rec]
                  /\ res' = [res EXCEPT ![r] = SendJson(@, rec.sessionData)]
             /\ pc' = [pc EXCEPT ![r] = "done"]
             /\ UNCHANGED <<proc, spawned>>
  /\ UNCHANGED <<variant, sessions, laps, req, sessionData, lapIdx, promise,
                 blocking>>

\* what follows storage.createF1Session in the handler: the loop over
\* sessionData.laps starts, or throws when laps cannot be iterated, or is
\* over at once
AfterCreate(r, data) ==
  IF ~data.lapsIterable
  THEN Throw(r, "session", Err(<<"sessionData.laps is not iterable">>))
  ELSE IF data.laps = <<>>
       THEN /\ res' = [res EXCEPT ![r] = SendJson(@, data)]
            /\ pc' = [pc EXCEPT ![r] = "done"]
       ELSE /\ pc' = [pc EXCEPT ![r] = "laps"]
            /\ UNCHANGED res

\* mutant: a handler that replaces the record the key already has
SessionCreateOverwrites(r) ==
  /\ UNCHANGED <<arrivedAfter, client>>
  /\ blocking = 0
  /\ pc[r] = "creating"
  /\ LET b == req[r].body
         found == getF1Session(sessions, b.year, b.gp.s, b.session.s)
         id == IF found = {} THEN Len(sessions) + 1
               ELSE (CHOOSE rec \in found : TRUE).id
         rec == [id |-> id, year |-> b.year, gp |-> b.gp.s,
                 session |-> b.session.s, sessionData |-> sessionData[r]]
     IN /\ sessions' = IF found = {} THEN Append(sessions, rec)
                       ELSE [sessions EXCEPT ![id] = rec]
        /\ cachedSession' = [cachedSession EXCEPT ![r] = rec]
        /\ lapIdx' = [lapIdx EXCEPT ![r] = 1]
        /\ AfterCreate(r, sessionData[r])
  /\ UNCHANGED <<variant, laps, req, sessionData, proc, promise, spawned,
                 blocking>>

\* storage.createF1Session stores the fetched payload
SessionCreate(r) ==
  /\ UNCHANGED <<arrivedAfter, client>>
  /\ blocking = 0
  /\ pc[r] = "creating"
  /\ LET b == req[r].body
         rec == createF1Session(sessions, b.year, b.gp.s, b.session.s,
                                sessionData[r])
     IN /\ sessions' = Append(sessions, rec)
        /\ cachedSession' = [cachedSession EXCEPT ![r] = rec]
        /\ lapIdx' = [lapIdx EXCEPT ![r] = 1]
        /\ AfterCreate(r, sessionData[r])
  /\ UNCHANGED <<variant, laps, req, sessionData, proc, promise, spawned,
                 blocking>>

\* mutant: a loop that stops one lap early
LastLapOffByOne(data, idx) == idx >= Len(data.laps) - 1

\* the loop is over after the lap at position idx
LastLap(data, idx) == idx >= Len(data.laps)

\* one storage.createF1Lap of the loop; after the last one, res.json
SessionCreateLap(r) ==
  /\ UNCHANGED <<arrivedAfter, client>>
  /\ blocking = 0
  /\ pc[r] = "laps"
  /\ laps' = Append(laps, LapInsert(cachedSession[r].id,
                                    sessionData[r].laps[lapIdx[r]]))
  /\ IF LastLap(sessionData[r], lapIdx[r])
     THEN /\ res' = [res EXCEPT ![r] = SendJson(@, sessionData[r])]
          /\ pc' = [pc EXCEPT ![r] = "done"]
          /\ UNCHANGED lapIdx
     ELSE /\ lapIdx' = [lapIdx EXCEPT ![r] = @ + 1]
          /\ UNCHANGED <<res, pc>>
  /\ UNCHANGED <<variant, sessions, req, cachedSession, sessionData, proc,
                 promise, spawned, blocking>>

\* an awaited store call rejects
StoreFail(r) ==
  /\ UNCHANGED <<arrivedAfter, client>>
  /\ blocking = 0
  /\ pc[r] \in {"lookup", "creating", "laps"}
  /\ Throw(r, "session", Err(<<"store failure">>))
  /\ UNCHANGED <<variant, sessions, laps, req, cachedSession, sessionData,
                 lapIdx, proc, promise, spawned, blocking>>

(***************************************************************************)
(* POST /api/f1/telemetry, GET /api/f1/gps/:year, /years, /sessions        *)
(***************************************************************************)
PostTelemetry(r) ==
  /\ CanArrive(r)
  /\ \E b \in TelemetryBodies :
       /\ req' = [req EXCEPT ![r] = Request("telemetry", "", b, <<>>)]
       /\ IF telemetrySchema(b)
          THEN /\ StartFetch(r, "telemetry",
                             TelemetryArgs(b.year, b.gp.s, b.session.s,
                                           b.driver1.s, b.lap1, b.driver2, b.lap2))
               /\ UNCHANGED res
          ELSE /\ Throw(r, "telemetry", ZodError)
               /\ UNCHANGED <<proc, spawned>>
  /\ UNCHANGED <<variant, sessions, laps, cachedSession, sessionData, lapIdx,
                 promise, blocking>>

GetGps(r) ==
  /\ CanArrive(r)
  /\ \E p \in GpsParams :
       /\ req' = [req EXCEPT ![r] = Request("gps", "", EmptyBody, p)]
       /\ IF GpsYearRejected(p)
          THEN /\ res' = [res EXCEPT ![r] =
                    SendError(@, 400, <<"Invalid year. Must be between 2018-2025">>)]
               /\ pc' = [pc EXCEPT ![r] = "done"]
               /\ UNCHANGED <<proc, spawned>>
          ELSE /\ StartFetch(r, "gps", GpsArgs(ParseInt(p).n))
               /\ UNCHANGED res
  /\ UNCHANGED <<variant, sessions, laps, cachedSession, sessionData, lapIdx,
                 promise, blocking>>

\* the fixed lists of /years and /sessions, as opaque JSON values
YearsList == [tag |-> "years", laps |-> <<>>, lapsIterable |-> FALSE]
SessionsList == [tag |-> "sessions", laps |-> <<>>, lapsIterable |-> FALSE]
\* the keys of the entries of that list
SessionTypes == {"FP1", "FP2", "FP3", "Q", "R"}

GetYears(r) ==
  /\ CanArrive(r)
  /\ req' = [req EXCEPT ![r] = Request("years", "", EmptyBody, <<>>)]
  /\ res' = [res EXCEPT ![r] = SendJson(@, YearsList)]
  /\ pc' = [pc EXCEPT ![r] = "done"]
  /\ UNCHANGED <<variant, sessions, laps, cachedSession, sessionData, lapIdx,
                 proc, promise, spawned, blocking>>

GetSessions(r) ==
  /\ CanArrive(r)
  /\ req' = [req EXCEPT ![r] = Request("sessions", "", EmptyBody, <<>>)]
  /\ res' = [res EXCEPT ![r] = SendJson(@, SessionsList)]
  /\ pc' = [pc EXCEPT ![r] = "done"]
  /\ UNCHANGED <<variant, sessions, laps, cachedSession, sessionData, lapIdx,
                 proc, promise, spawned, blocking>>

(***************************************************************************)
(* The process of an F1Service call and its event handlers.                *)
(***************************************************************************)
Spawned(r) == proc[r].op \in {"session", "telemetry", "gps"}

\* stdout.on("data"): dataString += data
ProcStdout(r) ==
  /\ UNCHANGED <<arrivedAfter, client>>
  /\ blocking = 0
  /\ Spawned(r) /\ proc[r].state = "running"
  /\ Len(proc[r].dataString) + Len(proc[r].errorString) < MaxChunks
  /\ \E c \in StdoutChunks :
       proc' = [proc EXCEPT ![r].dataString = Append(@, c)]
  /\ UNCHANGED <<variant, sessions, laps, req, pc, cachedSession, sessionData,
                 lapIdx, promise, res, spawned, blocking>>

\* stderr.on("data"): errorString += data
ProcStderr(r) ==
  /\ UNCHANGED <<arrivedAfter, client>>
  /\ blocking = 0
  /\ Spawned(r) /\ proc[r].state = "running"
  /\ Len(proc[r].dataString) + Len(proc[r].errorString) < MaxChunks
  /\ \E c \in StderrChunks :
       proc' = [proc EXCEPT ![r].errorString = Append(@, c)]
  /\ UNCHANGED <<variant, sessions, laps, req, pc, cachedSession, sessionData,
                 lapIdx, promise, res, spawned, blocking>>

\* on("error"): the process could not be started (it has written nothing)
ProcError(r) ==
  /\ UNCHANGED <<arrivedAfter, client>>
  /\ blocking = 0
  /\ Spawned(r) /\ proc[r].state = "running"
  /\ proc[r].dataString = <<>> /\ proc[r].errorString = <<>>
  /\ proc' = [proc EXCEPT ![r].state = "errored"]
  /\ promise' = [promise EXCEPT ![r] =
                   Settle(@, Rejected(SpawnError("spawn python3 ENOENT")))]
  /\ UNCHANGED <<variant, sessions, laps, req, pc, cachedSession, sessionData,
                 lapIdx, res, spawned, blocking>>

\* the exit codes "close" reports: 0 or 1 for a process that ran, a negative
\* errno for one that could not be started
ExitCodes(state) == IF state = "errored" THEN {0 - 2} ELSE {0, 1}

\* on("close")
\* mutant: a close handler that settles nothing when the exit code is not 0
ProcCloseIgnoresFailure(r) ==
  /\ UNCHANGED <<arrivedAfter, client>>
  /\ blocking = 0
  /\ Spawned(r) /\ proc[r].state \in {"running", "errored"}
  /\ \E code \in ExitCodes(proc[r].state) :
       /\ proc' = [proc EXCEPT ![r].state = "closed", ![r].code = code]
       /\ IF code # 0
          THEN UNCHANGED promise
          ELSE \E outcome \in CloseOutcomes(proc[r].op, code, proc[r].dataString,
                                            Concat(proc[r].errorString)) :
                 promise' = [promise EXCEPT ![r] = Settle(@, outcome)]
  /\ UNCHANGED <<variant, sessions, laps, req, pc, cachedSession, sessionData,
                 lapIdx, res, spawned, blocking>>

ProcClose(r) ==
  /\ UNCHANGED <<arrivedAfter, client>>
  /\ blocking = 0
  /\ Spawned(r) /\ proc[r].state \in {"running", "errored"}
  /\ \E code \in ExitCodes(proc[r].state) :
       /\ proc' = [proc EXCEPT ![r].state = "closed", ![r].code = code]
       /\ \E outcome \in CloseOutcomes(proc[r].op, code, proc[r].dataString,
                                       Concat(proc[r].errorString)) :
            promise' = [promise EXCEPT ![r] = Settle(@, outcome)]
  /\ UNCHANGED <<variant, sessions, laps, req, pc, cachedSession, sessionData,
                 lapIdx, res, spawned, blocking>>

\* mutant: a session handler that caches whatever the fetch ended with
FetchResumeCachesFailure(r) ==
  /\ UNCHANGED <<arrivedAfter, client>>
  /\ blocking = 0
  /\ pc[r] = "fetching"
  /\ promise[r].state # "pending"
  /\ IF req[r].route = "session"
     THEN /\ sessionData' = [sessionData EXCEPT ![r] = promise[r].value]
          /\ pc' = [pc EXCEPT ![r] = "creating"]
          /\ UNCHANGED res
     ELSE IF promise[r].state = "rejected"
          THEN /\ Throw(r, req[r].route, promise[r].error)
               /\ UNCHANGED sessionData
          ELSE /\ res' = [res EXCEPT ![r] = SendJson(@, promise[r].value)]
               /\ pc' = [pc EXCEPT ![r] = "done"]
               /\ UNCHANGED sessionData
  /\ UNCHANGED <<variant, sessions, laps, req, cachedSession, lapIdx, proc,
                 promise, spawned, blocking>>

\* mutant: a handler that starts the process again when its fetch failed
FetchResumeRetries(r) ==
  /\ UNCHANGED <<arrivedAfter, client>>
  /\ blocking = 0
  /\ pc[r] = "fetching"
  /\ promise[r].state # "pending"
  /\ IF promise[r].state = "rejected" /\ spawned[r] < 2
     THEN /\ proc' = [proc EXCEPT ![r] = Spawn(@.op, @.args)]
          /\ spawned' = [spawned EXCEPT ![r] = @ + 1]
          /\ promise' = [promise EXCEPT ![r] = Pending]
          /\ UNCHANGED <<sessionData, res, pc>>
     ELSE /\ UNCHANGED <<proc, spawned, promise>>
          /\ IF promise[r].state = "rejected"
             THEN /\ Throw(r, req[r].route, promise[r].error)
                  /\ UNCHANGED sessionData
             ELSE IF req[r].route = "session"
                  THEN /\ sessionData' = [sessionData EXCEPT ![r] = promise[r].value]
                       /\ pc' = [pc EXCEPT ![r] = "creating"]
                       /\ UNCHANGED res
                  ELSE /\ res' = [res EXCEPT ![r] = SendJson(@, promise[r].value)]
                       /\ pc' = [pc EXCEPT ![r] = "done"]
                       /\ UNCHANGED sessionData
  /\ UNCHANGED <<variant, sessions, laps, req, cachedSession, lapIdx, blocking>>

\* mutant: a handler that gives up on a process that is still running
FetchResumeTimesOut(r) ==
  /\ UNCHANGED <<arrivedAfter, client>>
  /\ blocking = 0
  /\ pc[r] = "fetching"
  /\ IF promise[r].state # "resolved"
     THEN /\ Throw(r, req[r].route,
                   IF promise[r].state = "rejected" THEN promise[r].error
                   ELSE Err(<<"timed out">>))
          /\ UNCHANGED sessionData
     ELSE IF req[r].route = "session"
          THEN /\ sessionData' = [sessionData EXCEPT ![r] = promise[r].value]
               /\ pc' = [pc EXCEPT ![r] = "creating"]
               /\ UNCHANGED res
          ELSE /\ res' = [res EXCEPT ![r] = SendJson(@, promise[r].value)]
               /\ pc' = [pc EXCEPT ![r] = "done"]
               /\ UNCHANGED sessionData
  /\ UNCHANGED <<variant, sessions, laps, req, cachedSession, lapIdx, proc,
                 promise, spawned, blocking>>

\* mutant: a handler that caches the result of every fetch, of any route
FetchResumeStoresTelemetry(r) ==
  /\ UNCHANGED <<arrivedAfter, client>>
  /\ blocking = 0
  /\ pc[r] = "fetching"
  /\ promise[r].state # "pending"
  /\ IF promise[r].state = "rejected"
     THEN /\ Throw(r, req[r].route, promise[r].error)
          /\ UNCHANGED sessionData
     ELSE /\ sessionData' = [sessionData EXCEPT ![r] = promise[r].value]
          /\ pc' = [pc EXCEPT ![r] = "creating"]
          /\ UNCHANGED res
  /\ UNCHANGED <<variant, sessions, laps, req, cachedSession, lapIdx, proc,
                 promise, spawned, blocking>>

\* the handler resumes after `await f1Service.get...`
FetchResume(r) ==
  /\ UNCHANGED <<arrivedAfter, client>>
  /\ blocking = 0
  /\ pc[r] = "fetching"
  /\ promise[r].state # "pending"
  /\ IF promise[r].state = "rejected"
     THEN /\ Throw(r, req[r].route, promise[r].error)
          /\ UNCHANGED sessionData
     ELSE IF req[r].route = "session"
          THEN /\ sessionData' = [sessionData EXCEPT ![r] = promise[r].value]
               /\ pc' = [pc EXCEPT ![r] = "creating"]
               /\ UNCHANGED res
          ELSE /\ res' = [res EXCEPT ![r] = SendJson(@, promise[r].value)]
               /\ pc' = [pc EXCEPT ![r] = "done"]
               /\ UNCHANGED sessionData
  /\ UNCHANGED <<variant, sessions, laps, req, cachedSession, lapIdx, proc,
                 promise, spawned, blocking>>

(***************************************************************************)
(* The analysis endpoints: execSync, then JSON.parse of its result.        *)
(***************************************************************************)
\* what the blocking command can print
ExecOutputs == {<<>>} \cup {<<c>> : c \in StdoutChunks}
ExecStderrs == {<<>>} \cup {<<c>> : c \in StderrChunks}

\* the requests the model sends to the analysis endpoints: every endpoint
\* with an empty body, two of them with a full body
AnalysisRequests ==
  {<<e, EmptyBody>> : e \in AnalysisEndpoints}
    \cup {<<e, b>> : e \in {"downforce-analysis", "race-insights"},
                     b \in AnalysisBodies}

\* execSync(...) followed by JSON.parse(result): the value or the error thrown
ExecSyncOutcomes(cmd, code, out, err) ==
  IF code # 0
  THEN {Rejected(Err(<<"Command failed: ", Concat(cmd), "\n", Concat(err)>>))}
  ELSE IF JsonParses(out)
       THEN {Resolved(JsonParse(out))}
       ELSE {Rejected(Err(m)) : m \in SyntaxErrorMessages(out)}

\* mutant: an analysis handler that awaits its process without blocking
PostAnalysisAsync(r) ==
  /\ CanArrive(r)
  /\ \E a \in AnalysisRequests :
       /\ req' = [req EXCEPT ![r] = Request("analysis", a[1], a[2], <<>>)]
       /\ proc' = [proc EXCEPT ![r] = Spawn("exec", AnalysisCommand(a[1], a[2]))]
  /\ spawned' = [spawned EXCEPT ![r] = @ + 1]
  /\ pc' = [pc EXCEPT ![r] = "exec"]
  /\ blocking' = 0
  /\ UNCHANGED <<variant, sessions, laps, cachedSession, sessionData, lapIdx,
                 promise, res>>

\* the request arrives and the handler enters execSync with req.body's fields
PostAnalysis(r) ==
  /\ CanArrive(r)
  /\ \E a \in AnalysisRequests :
       /\ req' = [req EXCEPT ![r] = Request("analysis", a[1], a[2], <<>>)]
       /\ proc' = [proc EXCEPT ![r] = Spawn("exec", AnalysisCommand(a[1], a[2]))]
  /\ spawned' = [spawned EXCEPT ![r] = @ + 1]
  /\ pc' = [pc EXCEPT ![r] = "exec"]
  /\ blocking' = r
  /\ UNCHANGED <<variant, sessions, laps, cachedSession, sessionData, lapIdx,
                 promise, res>>

\* execSync returns or throws; the handler answers
ExecFinish(r) ==
  /\ UNCHANGED <<arrivedAfter, client>>
  /\ blocking = r
  /\ pc[r] = "exec"
  /\ \E code \in {0, 1}, out \in ExecOutputs, err \in ExecStderrs :
       \* execSync returns stdout on exit code 0 and throws with stderr otherwise
       /\ IF code = 0 THEN err = <<>> ELSE out = <<>>
       /\ proc' = [proc EXCEPT ![r].state = "closed", ![r].code = code,
                               ![r].dataString = out, ![r].errorString = err]
       /\ \E outcome \in ExecSyncOutcomes(proc[r].args, code, out, err) :
            IF outcome.state = "rejected"
            THEN Throw(r, "analysis", outcome.error)
            ELSE /\ res' = [res EXCEPT ![r] = SendJson(@, outcome.value)]
                 /\ pc' = [pc EXCEPT ![r] = "done"]
  /\ blocking' = 0
  /\ UNCHANGED <<variant, sessions, laps, req, cachedSession, sessionData,
                 lapIdx, promise, spawned>>

Next ==
  \E r \in Reqs :
    \/ PostAnalysis(r)
    \/ ExecFinish(r)
    \/ PostSession(r)
    \/ SessionLookup(r)
    \/ SessionCreate(r)
    \/ SessionCreateLap(r)
    \/ StoreFail(r)
    \/ PostTelemetry(r)
    \/ GetGps(r)
    \/ GetYears(r)
    \/ GetSessions(r)
    \/ ProcStdout(r)
    \/ ProcStderr(r)
    \/ ProcError(r)
    \/ ProcClose(r)
    \/ FetchResume(r)

Spec == Init /\ [][Next]_vars

(***************************************************************************)
(* Progress: requests of every route, with a process that was started         *)
(* eventually closing or failing, a store call that was made eventually    *)
(* returning or failing, and the event loop eventually running the         *)
(* continuation of a settled promise.                                      *)
(***************************************************************************)
LiveReqs == 1..MaxMixed

ProcessEnds(r) == ProcClose(r) \/ ProcError(r) \/ ExecFinish(r)

StoreReturns(r) ==
  SessionLookup(r) \/ SessionCreate(r) \/ SessionCreateLap(r) \/ StoreFail(r)

Fairness ==
  \A r \in LiveReqs :
    /\ WF_vars(ProcessEnds(r))
    /\ WF_vars(StoreReturns(r))
    /\ WF_vars(FetchResume(r))

\* the first request is of any route; the requests that arrive while it is
\* served are analysis requests, whose blocking call holds it up
NextLive ==
  \E r \in LiveReqs :
    \/ PostAnalysis(r)
    \/ ExecFinish(r)
    \/ r = 1 /\ PostSession(r)
    \/ SessionLookup(r)
    \/ SessionCreate(r)
    \/ SessionCreateLap(r)
    \/ StoreFail(r)
    \/ r = 1 /\ PostTelemetry(r)
    \/ r = 1 /\ GetGps(r)
    \/ r = 1 /\ GetYears(r)
    \/ r = 1 /\ GetSessions(r)
    \/ ProcStdout(r)
    \/ ProcStderr(r)
    \/ ProcError(r)
    \/ ProcClose(r)
    \/ FetchResume(r)

SpecLive == Init /\ [][NextLive]_vars /\ Fairness

(***************************************************************************)
(* The session race: MaxReqs requests to POST /api/f1/session for one key, *)
(* under the asyncHandler routes, with processes that start and close.     *)
(***************************************************************************)
RacePostSession(r) == PostSessionWith(r, RaceBodies, MaxReqs)

InitRace == Init /\ variant = "asyncHandler"

NextRace ==
  \E r \in Reqs :
    \/ RacePostSession(r)
    \/ SessionLookup(r)
    \/ ProcStdout(r)
    \/ ProcClose(r)
    \/ FetchResume(r)
    \/ SessionCreate(r)
    \/ SessionCreateLap(r)

SpecRace == InitRace /\ [][NextRace]_vars

(***************************************************************************)
(* DriverComparison: two dropdowns over sessionData.drivers, each with the *)
(* other's driver disabled, and the "Sync with Telemetry" button.          *)
(***************************************************************************)
\* Dashboard: setSessionData, the prop of DriverComparison
ComparisonSessionLoaded ==
  /\ \E sd \in ComparisonSessions :
       driverComparison' = [driverComparison EXCEPT !.sessionData = sd]
  /\ UNCHANGED <<server, formulaAnalysis>>

\* Dashboard: setTelemetryData, from which the telemetryDrivers prop is made
TelemetryDataLoaded ==
  /\ \E t \in TelemetryDriversValues :
       driverComparison' = [driverComparison EXCEPT !.telemetryDrivers = t]
  /\ UNCHANGED <<server, formulaAnalysis>>

\* the component shows its dropdowns and buttons
ComparisonShown ==
  /\ ~driverComparison.sessionData.isNull
  /\ Len(driverComparison.sessionData.drivers) > 0

\* the items of a dropdown that can be picked
Selectable(other) ==
  {d \in Range(driverComparison.sessionData.drivers) : d # other}

\* <Select value={driver1} onValueChange={setDriver1}>
setDriver1 ==
  /\ ComparisonShown
  /\ \E d \in Selectable(driverComparison.driver2) :
       driverComparison' = [driverComparison EXCEPT !.driver1 = d]
  /\ UNCHANGED <<server, formulaAnalysis>>

\* <Select value={driver2} onValueChange={setDriver2}>
setDriver2 ==
  /\ ComparisonShown
  /\ \E d \in Selectable(driverComparison.driver1) :
       driverComparison' = [driverComparison EXCEPT !.driver2 = d]
  /\ UNCHANGED <<server, formulaAnalysis>>

\* the button is shown when telemetryDrivers is set
syncWithTelemetry ==
  /\ ComparisonShown
  /\ ~driverComparison.telemetryDrivers.isNull
  /\ driverComparison' =
       [driverComparison EXCEPT
          !.driver1 = OrEmpty(Str(driverComparison.telemetryDrivers.driver1)),
          !.driver2 = OrEmpty(driverComparison.telemetryDrivers.driver2)]
  /\ UNCHANGED <<server, formulaAnalysis>>

NextComparison ==
  \/ ComparisonSessionLoaded
  \/ TelemetryDataLoaded
  \/ setDriver1
  \/ setDriver2
  \/ syncWithTelemetry

SpecComparison == Init /\ [][NextComparison]_vars

(***************************************************************************)
(* FormulaAnalysis: one render is a run through the component's function,  *)
(* the expressions of its JSX evaluated in the order they are written.     *)
(***************************************************************************)
\* what a use of driverMetrics[0] at a line of the source reads
Leader(line, dm) ==
  [line |-> line, driver |-> At0(dm, 0).driver, bestLap |-> At0(dm, 0).bestLap]

\* Dashboard: setSessionData, the prop of FormulaAnalysis
AnalysisSessionLoaded ==
  /\ formulaAnalysis.at = "idle"
  /\ formulaAnalysis.sessionData.isNull
  /\ \E sd \in AnalysisSessions :
       formulaAnalysis' =
         [formulaAnalysis EXCEPT !.sessionData = sd, !.at = "render"]
  /\ UNCHANGED <<server, driverComparison>>

\* the "Show Details" button of a rendered component
setShowDetails ==
  /\ formulaAnalysis.at = "shown"
  /\ formulaAnalysis' =
       [formulaAnalysis EXCEPT !.showDetails = ~@, !.at = "render",
                              !.driverMetrics = <<>>, !.leaders = <<>>,
                              !.bestOverallLap = Infinity, !.gapP1P10 = 0]
  /\ UNCHANGED <<server, driverComparison>>

\* the early return, then driverMetrics and bestOverallLap
ComputeDriverMetrics ==
  /\ formulaAnalysis.at = "render"
  /\ LET sd == formulaAnalysis.sessionData
         dm == DriverMetricsOf(sd)
     IN IF sd.isNull \/ Len(sd.laps) = 0
        THEN formulaAnalysis' = [formulaAnalysis EXCEPT !.at = "nothing"]
        ELSE formulaAnalysis' =
               [formulaAnalysis EXCEPT
                  !.driverMetrics = dm,
                  !.bestOverallLap =
                    MathMin([i \in 1..Len(dm) |-> dm[i].bestLap]),
                  !.at = "advancedMetrics"]
  /\ UNCHANGED <<server, driverComparison>>

\* advancedMetrics.fastestDriver: driverMetrics[0]!.driver, a TypeError on an
\* empty array
AdvancedMetrics ==
  /\ formulaAnalysis.at = "advancedMetrics"
  /\ IF formulaAnalysis.driverMetrics = <<>>
     THEN formulaAnalysis' = [formulaAnalysis EXCEPT !.at = "threw"]
     ELSE formulaAnalysis' =
            [formulaAnalysis EXCEPT
               !.leaders = Append(@, Leader(98, formulaAnalysis.driverMetrics)),
               !.at = "fastestLap"]
  /\ UNCHANGED <<server, driverComparison>>

\* the Fastest Lap card, then the details if they are shown
FastestLapCard ==
  /\ formulaAnalysis.at = "fastestLap"
  /\ formulaAnalysis' =
       [formulaAnalysis EXCEPT
          !.leaders = Append(@, Leader(164, formulaAnalysis.driverMetrics)),
          !.at = IF formulaAnalysis.showDetails THEN "leads" ELSE "shown"]
  /\ UNCHANGED <<server, driverComparison>>

\* key insights: "... leads with the fastest lap of ..."
LeadsInsight ==
  /\ formulaAnalysis.at = "leads"
  /\ formulaAnalysis' =
       [formulaAnalysis EXCEPT
          !.leaders = Append(@, Leader(446, formulaAnalysis.driverMetrics)),
          !.at = "mostConsistent"]
  /\ UNCHANGED <<server, driverComparison>>

\* key insights: driverMetrics.sort(by consistency)[0], a sort in place
MostConsistentInsight ==
  /\ formulaAnalysis.at = "mostConsistent"
  /\ formulaAnalysis' =
       [formulaAnalysis EXCEPT
          !.driverMetrics =
            SortBy(SortBy(formulaAnalysis.driverMetrics, "consistency"),
                   "consistency"),
          !.at = "spread"]
  /\ UNCHANGED <<server, driverComparison>>

\* key insights: "Performance spread from P1 to P10"
PerformanceSpread ==
  /\ formulaAnalysis.at = "spread"
  /\ formulaAnalysis' =
       [formulaAnalysis EXCEPT
          !.leaders = Append(@, Leader(470, formulaAnalysis.driverMetrics)),
          !.at = "gap"]
  /\ UNCHANGED <<server, driverComparison>>

\* session statistics: "Gap P1-P10", the end of the render
GapP1P10 ==
  /\ formulaAnalysis.at = "gap"
  /\ LET dm == formulaAnalysis.driverMetrics
         p10 == IF 9 < Len(dm) - 1 THEN 9 ELSE Len(dm) - 1
     IN formulaAnalysis' =
          [formulaAnalysis EXCEPT
             !.gapP1P10 = At0(dm, p10).bestLap - formulaAnalysis.bestOverallLap,
             !.at = "shown"]
  /\ UNCHANGED <<server, driverComparison>>

NextAnalysis ==
  \/ AnalysisSessionLoaded
  \/ setShowDetails
  \/ ComputeDriverMetrics
  \/ AdvancedMetrics
  \/ FastestLapCard
  \/ LeadsInsight
  \/ MostConsistentInsight
  \/ PerformanceSpread
  \/ GapP1P10

SpecAnalysis == Init /\ [][NextAnalysis]_vars

(***************************************************************************)
(* Vocabulary of the properties.                                           *)
(***************************************************************************)
IsSession(r) == req[r].route = "session"
Answered(r) == pc[r] = "done"
SameKey(a, b) ==
  /\ req[a].body.year = req[b].body.year
  /\ req[a].body.gp = req[b].body.gp
  /\ req[a].body.session = req[b].body.session

\* r went through the miss path and answered with the fetched payload
MissSuccess(r) ==
  IsSession(r) /\ Answered(r) /\ res[r].status = 200 /\ spawned[r] > 0

\* the requests that have created a SessionRecord
Creators == {q \in Reqs : IsSession(q) /\ cachedSession[q].id # 0 /\ spawned[q] > 0}

LapsOf(id) == SelectSeq(laps, LAMBDA l : l.sessionId = id)

\* the process of r was started and has closed
Ran(r) == proc[r].state = "closed" /\ proc[r].code \in ExitCodes("running")

\* the parts of a message
Parts(e) == Range(e.message)

(***************************************************************************)
(* C1: if a session request for a key has been answered successfully and a *)
(* second request for the same key arrives after that, the second request  *)
(* starts no process and its response equals the first one's payload.      *)
(***************************************************************************)
C1_CacheHitIdempotent ==
  \A r1, r2 \in Reqs :
    ( /\ IsSession(r1) /\ IsSession(r2) /\ SameKey(r1, r2)
      /\ Answered(r1) /\ res[r1].status = 200
      /\ r1 \in arrivedAfter[r2]
      /\ Answered(r2) )
    => /\ spawned[r2] = 0
       /\ res[r2].status = 200
       /\ res[r2].payload = res[r1].payload

(***************************************************************************)
(* C2: in every reachable state the store holds at most one SessionRecord  *)
(* for each (year, gp, session) key.                                       *)
(***************************************************************************)
C2_OneRecordPerKey ==
  \A i, j \in DOMAIN sessions :
    ( /\ sessions[i].year = sessions[j].year
      /\ sessions[i].gp = sessions[j].gp
      /\ sessions[i].session = sessions[j].session )
    => i = j

(***************************************************************************)
(* C3: a session request that misses the cache and whose fetch succeeds    *)
(* with payload P has, when it has answered, started exactly one process   *)
(* and created exactly one SessionRecord for its key, holding P, and       *)
(* exactly len(P.laps) LapRecords, all referencing that record's id.       *)
(***************************************************************************)
C3_MissCreatesOneRecordAndItsLaps ==
  /\ \A r \in Reqs :
       MissSuccess(r) =>
         LET id == cachedSession[r].id
             P == res[r].payload
         IN /\ spawned[r] = 1
            /\ promise[r] = Resolved(P)
            /\ id \in DOMAIN sessions
            /\ sessions[id] = [id |-> id, year |-> req[r].body.year,
                               gp |-> req[r].body.gp.s,
                               session |-> req[r].body.session.s,
                               sessionData |-> P]
            /\ Len(LapsOf(id)) = Len(P.laps)
            /\ \A i \in 1..Len(P.laps) : LapsOf(id)[i] = LapInsert(id, P.laps[i])
  \* one record for each request that created one
  /\ \A a, b \in Creators : cachedSession[a].id = cachedSession[b].id => a = b
  /\ Len(sessions) = Cardinality(Creators)

C3_Witness ==
  \E r \in Reqs : MissSuccess(r) /\ res[r].payload = PayloadA

(***************************************************************************)
(* C4: if the fetch of a cache miss fails, the request ends with an error  *)
(* response and has written nothing: no SessionRecord and no LapRecord     *)
(* exists for it.                                                          *)
(***************************************************************************)
C4_FetchFailureWritesNothing ==
  /\ \A r \in Reqs :
       (IsSession(r) /\ promise[r].state = "rejected") =>
         /\ pc[r] \in {"fetching", "done"}
         /\ cachedSession[r] = NoRecord
         /\ lapIdx[r] = 0
         /\ Answered(r) => /\ res[r].kind = "error"
                           /\ res[r].status = 500
                           /\ res[r].count = 1
  \* every record of the store belongs to a request whose fetch succeeded
  /\ Len(sessions) <=
       Cardinality({q \in Reqs : IsSession(q) /\ promise[q].state = "resolved"})
  /\ \A i \in DOMAIN laps :
       \E q \in Reqs : /\ promise[q].state = "resolved"
                       /\ cachedSession[q].id = laps[i].sessionId

C4_Witness ==
  \E a, b \in Reqs :
    /\ IsSession(a) /\ Answered(a) /\ promise[a].state = "rejected"
    /\ MissSuccess(b)

(***************************************************************************)
(* C5: a request whose year is outside [2018, 2025] (the year field of a   *)
(* session request, the :year parameter of a gps request) is rejected      *)
(* without starting a process and without a write to the store.            *)
(***************************************************************************)
\* the path parameter is a decimal numeral: digits, then perhaps "." digits
IntegerPart(cs) == DigitPrefix(cs)
AfterInteger(cs) == SubSeq(cs, Len(IntegerPart(cs)) + 1, Len(cs))
IsNumeral(cs) ==
  /\ IntegerPart(cs) # <<>>
  /\ \/ AfterInteger(cs) = <<>>
     \/ /\ Head(AfterInteger(cs)) = "."
        /\ Len(AfterInteger(cs)) > 1
        /\ \A i \in 2..Len(AfterInteger(cs)) : AfterInteger(cs)[i] \in Digits
NumeralHasFraction(cs) ==
  \E i \in 2..Len(AfterInteger(cs)) : AfterInteger(cs)[i] # "0"
\* the number the numeral denotes is below MinYear or above MaxYear
NumeralOutOfRange(cs) ==
  LET n == DecimalValue(IntegerPart(cs), 0)
  IN n < MinYear \/ n > MaxYear \/ (n = MaxYear /\ NumeralHasFraction(cs))

YearOutOfRange(r) ==
  \/ /\ IsSession(r)
     /\ req[r].body.year.t = "number"
     /\ ~(NumGe(req[r].body.year, MinYear) /\ NumLe(req[r].body.year, MaxYear))
  \/ /\ req[r].route = "gps"
     /\ IsNumeral(req[r].param)
     /\ NumeralOutOfRange(req[r].param)

C5_OutOfRangeYearRejected ==
  \A r \in Reqs :
    YearOutOfRange(r) =>
      /\ Answered(r)
      /\ res[r].kind = "error"
      /\ spawned[r] = 0
      /\ cachedSession[r] = NoRecord

(***************************************************************************)
(* C6: on every endpoint that starts a process, a request with a missing,  *)
(* wrongly typed or out-of-range field starts no process.                  *)
(***************************************************************************)
\* year: an integer in range; names: non-empty strings; lap: an integer >= 1
GoodYear(v) == v.t = "number" /\ v.frac = 0 /\ v.n >= MinYear /\ v.n <= MaxYear
GoodName(v) == v.t = "string" /\ v.s # ""
GoodLap(v) == v.t = "number" /\ v.frac = 0 /\ v.n >= 1

WellFormed(r) ==
  LET b == req[r].body
  IN CASE req[r].route = "session" ->
            /\ GoodYear(b.year) /\ GoodName(b.gp) /\ GoodName(b.session)
            /\ ZStringArrayOptional(b.drivers)
       [] req[r].route = "telemetry" ->
            /\ GoodYear(b.year) /\ GoodName(b.gp) /\ GoodName(b.session)
            /\ GoodName(b.driver1) /\ GoodLap(b.lap1)
            /\ ZStringOptional(b.driver2) /\ ZNumberOptional(b.lap2)
       [] req[r].route = "gps" ->
            /\ IsNumeral(req[r].param)
            /\ AfterInteger(req[r].param) = <<>>
            /\ ~NumeralOutOfRange(req[r].param)
       [] req[r].route = "analysis" ->
            /\ GoodYear(b.year) /\ GoodName(b.gp) /\ GoodName(b.session)
            /\ req[r].endpoint \in AnalysisWithLap =>
                 GoodName(b.driver) /\ GoodLap(b.lap)
       [] OTHER -> TRUE

C6_MalformedNeverStartsProcess ==
  \A r \in Reqs : (pc[r] # "idle" /\ ~WellFormed(r)) => spawned[r] = 0

(***************************************************************************)
(* C7: an error response has status 400 when the request failed            *)
(* validation and status 500 when the process or the parsing of its output *)
(* failed; never the other way round.                                      *)
(***************************************************************************)
FailedValidation(r) ==
  \/ IsSession(r) /\ ~sessionSchema(req[r].body)
  \/ req[r].route = "telemetry" /\ ~telemetrySchema(req[r].body)
  \/ req[r].route = "gps" /\ GpsYearRejected(req[r].param)

C7_StatusTellsFailureKind ==
  \A r \in Reqs :
    (Answered(r) /\ res[r].kind = "error") =>
      /\ FailedValidation(r) => res[r].status = 400
      /\ spawned[r] > 0 => res[r].status = 500

EmptyOutputMessages ==
  {EmptyOutputError(op).message : op \in {"session", "telemetry", "gps"}}

\* the error the operation of r failed with, if it did
FailureOf(r) ==
  IF Spawned(r) THEN promise[r].error.message ELSE res[r].message

Failed(r) ==
  IF Spawned(r) THEN promise[r].state = "rejected" ELSE res[r].kind = "error"

C9_BlankOutputIsEmptyOutputError ==
  \A r \in Reqs :
    ( /\ Ran(r) /\ proc[r].code = 0 /\ IsBlank(proc[r].dataString)
      /\ Spawned(r) \/ Answered(r) )
    => /\ Failed(r)
       /\ FailureOf(r) \in EmptyOutputMessages

(***************************************************************************)
(* C10: when the process closes with exit code 0 and stdout that is not    *)
(* JSON, the fetch fails with an error that carries the parse error and an *)
(* excerpt of the raw output.                                              *)
(***************************************************************************)
C10_MalformedOutputCarriesExcerpt ==
  \A r \in Reqs :
    ( /\ Spawned(r) /\ Ran(r) /\ proc[r].code = 0
      /\ ~IsBlank(proc[r].dataString) /\ ~JsonParses(proc[r].dataString) )
    => /\ promise[r].state = "rejected"
       /\ \E m \in SyntaxErrorMessages(proc[r].dataString) :
            Range(m) \subseteq Parts(promise[r].error)
       /\ Concat(proc[r].dataString) \in Parts(promise[r].error)

(***************************************************************************)
(* C11: when the process of an F1Service call cannot be started, the call  *)
(* fails with the spawn-failure error, and that is its single outcome: the *)
(* "close" event that follows the "error" event leaves the outcome as it   *)
(* is and the request is answered once, with that error.                   *)
(***************************************************************************)
\* the process of r reported "error" (and has perhaps closed since)
SpawnFailed(r) ==
  /\ Spawned(r)
  /\ \/ proc[r].state = "errored"
     \/ proc[r].state = "closed" /\ proc[r].code \notin ExitCodes("running")

C11_SpawnFailureIsTheSingleOutcome ==
  \A r \in Reqs :
    SpawnFailed(r) =>
      /\ promise[r].state = "rejected"
      /\ Len(promise[r].error.message) = 2
      /\ promise[r].error.message[1] = "Failed to spawn Python process: "
      /\ spawned[r] = 1
      /\ res[r].count <= 1
      /\ Answered(r) => /\ res[r].count = 1
                        /\ res[r].kind = "error"
                        /\ res[r].status = 500
                        /\ res[r].message = promise[r].error.message

\* a process that failed to start has closed and its request is answered
C11_Witness ==
  \E r \in Reqs :
    /\ SpawnFailed(r) /\ proc[r].state = "closed" /\ proc[r].code = 0 - 2
    /\ Answered(r)

(***************************************************************************)
(* C12: a request starts at most one process in its whole life; a request  *)
(* whose fetch failed is on its way to an error answer, or has given it,   *)
(* and starts no other process.                                            *)
(***************************************************************************)
C12_AtMostOneProcessPerRequest ==
  \A r \in Reqs :
    /\ spawned[r] <= 1
    /\ (Spawned(r) /\ promise[r].state = "rejected") =>
         /\ spawned[r] = 1
         /\ pc[r] \in {"fetching", "done"}
         /\ proc[r].state # "running"
         /\ Answered(r) => res[r].kind = "error" /\ res[r].count = 1

\* a fetch failed, its request was answered, and a later request went on
C12_Witness ==
  \E a, b \in Reqs :
    /\ Spawned(a) /\ promise[a].state = "rejected" /\ Answered(a)
    /\ a \in arrivedAfter[b] /\ spawned[b] = 1

(***************************************************************************)
(* C13: whatever a handler throws, its request ends with exactly one JSON  *)
(* response, and the server goes on serving: no request is answered twice  *)
(* (a second send would be a second answer under asyncHandler and an       *)
(* exception escaping the catch, which ends the server, under try/catch),  *)
(* and the event loop is held only by a handler that is inside execSync.   *)
(***************************************************************************)
C13_EveryErrorIsAnsweredOnce ==
  /\ \A r \in Reqs :
       /\ res[r].count <= 1
       /\ Answered(r) => /\ res[r].count = 1
                         /\ res[r].kind \in {"json", "error"}
       /\ res[r].kind = "error" => /\ res[r].status \in {400, 500}
                                   /\ res[r].message # <<>>
       /\ res[r].count > 0 => Answered(r)
  /\ blocking # 0 => pc[blocking] = "exec"

\* a request ended with an error thrown by its handler, and a request that
\* arrived after it was served
C13_Witness ==
  \E a, b \in Reqs :
    /\ Answered(a) /\ res[a].kind = "error" /\ res[a].status = 500
    /\ a \in arrivedAfter[b]
    /\ Answered(b) /\ res[b].kind = "json"

(***************************************************************************)
(* C14: every LapRecord's sessionId is the id of a SessionRecord of the    *)
(* store, and a handler writes laps only after it has created the          *)
(* SessionRecord of its key.                                               *)
(***************************************************************************)
C14_LapsReferenceExistingSession ==
  /\ \A i \in DOMAIN laps :
       \E j \in DOMAIN sessions : sessions[j].id = laps[i].sessionId
  /\ \A r \in Reqs :
       pc[r] = "laps" =>
         /\ cachedSession[r].id \in DOMAIN sessions
         /\ sessions[cachedSession[r].id] = cachedSession[r]
         /\ cachedSession[r].year = req[r].body.year
         /\ cachedSession[r].gp = req[r].body.gp.s
         /\ cachedSession[r].session = req[r].body.session.s

\* laps of two sessions are in the store
C14_Witness ==
  \E i, j \in DOMAIN laps : laps[i].sessionId # laps[j].sessionId

(***************************************************************************)
(* C15: no step updates or removes a SessionRecord: every record of the    *)
(* store is the same after the step, the store only grows, and the record  *)
(* a key is looked up to stays the same.                                   *)
(***************************************************************************)
C15_RecordsNeverChange ==
  [][ /\ Len(sessions') >= Len(sessions)
      /\ \A i \in DOMAIN sessions :
           /\ sessions'[i] = sessions[i]
           /\ getF1Session(sessions', sessions[i].year, sessions[i].gp,
                           sessions[i].session)
                = getF1Session(sessions, sessions[i].year, sessions[i].gp,
                               sessions[i].session) ]_vars

\* a second payload was written for a key that had a record
C15_Witness ==
  \E i, j \in DOMAIN sessions :
    /\ i < j
    /\ sessions[i].year = sessions[j].year
    /\ sessions[i].gp = sessions[j].gp
    /\ sessions[i].session = sessions[j].session
    /\ sessions[i].sessionData # sessions[j].sessionData

(***************************************************************************)
(* C16: when two overlapping session requests for one key both miss the    *)
(* cache, the payloads the two write to the store are equal, whatever      *)
(* drivers lists they carry.  The script is granted to print the same for  *)
(* the same arguments, so that only the drivers lists can tell the two     *)
(* fetches apart.                                                          *)
(***************************************************************************)
\* processes started with equal arguments have printed equal output
SameArgsSameOutput ==
  \A x, y \in Reqs :
    (Spawned(x) /\ Spawned(y) /\ proc[x].args = proc[y].args)
      => proc[x].dataString = proc[y].dataString

C16_ConcurrentWritesCarryEqualPayloads ==
  SameArgsSameOutput =>
    \A a, b \in Creators :
      SameKey(a, b) => cachedSession[a].sessionData = cachedSession[b].sessionData

(***************************************************************************)
(* C17: validation accepts a session or telemetry request only if year is  *)
(* an integer in [2018, 2025], gp and session are non-empty strings,       *)
(* drivers (when present) is an array of strings and, for telemetry,       *)
(* driver1 is a non-empty string and lap1 a positive integer.              *)
(***************************************************************************)
\* r has passed the schema of its route
Accepted(r) ==
  /\ req[r].route \in {"session", "telemetry"}
  /\ pc[r] # "idle"
  /\ ~(Answered(r) /\ res[r].message = ZodError.message)

C17_ValidationAcceptsOnlyWellFormed ==
  \A r \in Reqs : Accepted(r) => WellFormed(r)

(***************************************************************************)
(* C18: every SessionRecord of the store has a key whose year is an        *)
(* integer in [2018, 2025], whose grand-prix name is not empty and whose   *)
(* session type is one of FP1, FP2, FP3, Q, R.                             *)
(***************************************************************************)
C18_StoredKeysAreWellFormed ==
  \A i \in DOMAIN sessions :
    /\ GoodYear(sessions[i].year)
    /\ sessions[i].gp # ""
    /\ sessions[i].session \in SessionTypes

(***************************************************************************)
(* C19: a telemetry request that carries only one of driver2 and lap2      *)
(* passes validation and starts the process with neither of them; the      *)
(* argument list of a telemetry process holds both or none.                *)
(***************************************************************************)
\* exactly one of driver2 and lap2 is in the body
OneOfPair(b) == (b.driver2.t = "undefined") # (b.lap2.t = "undefined")

\* the arguments every telemetry process gets
TelemetryBase(b) ==
  <<"telemetry", JsToString(b.year), b.gp.s, b.session.s, b.driver1.s,
    JsToString(b.lap1)>>

C19_Driver2Lap2BothOrNone ==
  \A r \in Reqs :
    (req[r].route = "telemetry" /\ pc[r] # "idle") =>
      LET b == req[r].body
      IN /\ (WellFormed(r) /\ OneOfPair(b)) =>
              /\ spawned[r] = 1
              /\ proc[r].args = TelemetryBase(b)
         /\ spawned[r] > 0 =>
              \/ proc[r].args = TelemetryBase(b)
              \/ /\ ~OneOfPair(b)
                 /\ proc[r].args
                      = TelemetryBase(b) \o <<b.driver2.s, JsToString(b.lap2)>>

\* one request carried driver2 alone, another lap2 alone
C19_Witness ==
  \E a, b \in Reqs :
    /\ req[a].route = "telemetry" /\ spawned[a] = 1
    /\ req[a].body.driver2.t = "string" /\ req[a].body.lap2.t = "undefined"
    /\ req[b].route = "telemetry" /\ spawned[b] = 1
    /\ req[b].body.driver2.t = "undefined" /\ req[b].body.lap2.t = "number"

(***************************************************************************)
(* C20: on a cache miss whose fetch succeeds (and whose store calls        *)
(* succeed), the response body is the JSON value parsed from the process's *)
(* stdout and the payload of the new SessionRecord is that same value.     *)
(***************************************************************************)
\* an awaited store call of r rejected
StoreFailed(r) == res[r].message = <<"store failure">>

C20_PayloadPassesThroughUnchanged ==
  \A r \in Reqs :
    ( /\ IsSession(r) /\ Spawned(r) /\ promise[r].state = "resolved"
      /\ Answered(r) /\ ~StoreFailed(r) )
    => LET P == PayloadOfText(Trim(proc[r].dataString)[1])
           id == cachedSession[r].id
       IN /\ res[r].status = 200
          /\ res[r].payload = P
          /\ id \in DOMAIN sessions
          /\ sessions[id].sessionData = P

(***************************************************************************)
(* C21: a request that started a process is answered only after that       *)
(* process has closed or failed to start: while the process runs the       *)
(* request is pending and unanswered, its handler waiting.                 *)
(***************************************************************************)
C21_ResponseOnlyAfterProcessEnds ==
  \A r \in Reqs :
    /\ (spawned[r] > 0 /\ res[r].count > 0) =>
         proc[r].state \in {"closed", "errored"}
    /\ proc[r].state = "running" =>
         /\ ~Answered(r)
         /\ res[r].count = 0
         /\ pc[r] \in {"fetching", "exec"}
         /\ Spawned(r) => promise[r].state = "pending"

\* a process still runs, and a request that came later has its answer
C21_Witness ==
  \E a, b \in Reqs :
    /\ a < b
    /\ proc[a].state = "running" /\ proc[a].dataString # <<>>
    /\ Answered(b) /\ spawned[b] = 1

(***************************************************************************)
(* C23: the process of a session fetch gets, after the script path, the    *)
(* arguments "session", the year as a decimal string, gp and session, in   *)
(* that order, then the drivers in request order; an absent or empty       *)
(* drivers list adds nothing.                                              *)
(***************************************************************************)
C23_SessionArgsInOrder ==
  \A r \in Reqs :
    (IsSession(r) /\ spawned[r] > 0) =>
      LET b == req[r].body
          base == <<"session", JsToString(b.year), b.gp.s, b.session.s>>
      IN proc[r].args =
           IF b.drivers.t = "array" THEN base \o b.drivers.items ELSE base

\* a fetch with two drivers and a fetch with an empty drivers list
C23_Witness ==
  \E a, b \in Reqs :
    /\ IsSession(a) /\ spawned[a] = 1 /\ Len(req[a].body.drivers.items) = 2
    /\ IsSession(b) /\ spawned[b] = 1 /\ req[b].body.drivers = Arr(<<>>)

(***************************************************************************)
(* C24: while the handler of an analysis request is inside its blocking    *)
(* call, no other handler takes a step: no request is accepted, the store  *)
(* is neither read nor written, no process is started, no output of a      *)
(* process is taken in and no response is sent.                            *)
(***************************************************************************)
C24_ExecSyncBlocksEveryOtherHandler ==
  [][ \A r \in Reqs :
        pc[r] = "exec" =>
          /\ sessions' = sessions
          /\ laps' = laps
          /\ \A q \in Reqs \ {r} :
               /\ req'[q] = req[q]
               /\ pc'[q] = pc[q]
               /\ res'[q] = res[q]
               /\ proc'[q] = proc[q]
               /\ promise'[q] = promise[q]
               /\ spawned'[q] = spawned[q]
               /\ cachedSession'[q] = cachedSession[q] ]_vars

\* a handler is inside execSync while another request is under way
C24_Witness ==
  \E a, b \in Reqs :
    /\ pc[a] = "exec"
    /\ pc[b] \in {"lookup", "fetching", "creating", "laps"}

(***************************************************************************)
(* C25: a cache hit ignores the drivers field.  When a session request     *)
(* arrives after the request that populated the cache for its key was      *)
(* answered, and the two carry different drivers lists, it starts no       *)
(* process and its response is the payload fetched for the drivers list of *)
(* the populating request.                                                 *)
(***************************************************************************)
\* the record of r is the one lookups of its key return
Populated(r) ==
  getF1Session(sessions, req[r].body.year, req[r].body.gp.s,
               req[r].body.session.s) = {cachedSession[r]}

C25_HitIgnoresDrivers ==
  \A r1, r2 \in Reqs :
    ( /\ IsSession(r1) /\ IsSession(r2) /\ SameKey(r1, r2)
      /\ req[r1].body.drivers # req[r2].body.drivers
      /\ MissSuccess(r1) /\ Populated(r1)
      /\ r1 \in arrivedAfter[r2]
      /\ Answered(r2) )
    => /\ spawned[r2] = 0
       /\ res[r2].status = 200
       /\ res[r2].payload = promise[r1].value
       /\ cachedSession[r2] = cachedSession[r1]

\* a request with drivers was answered from what a request without drivers
\* had fetched
C25_Witness ==
  \E r1, r2 \in Reqs :
    /\ IsSession(r1) /\ IsSession(r2) /\ SameKey(r1, r2)
    /\ req[r1].body.drivers = Undefined /\ req[r2].body.drivers.t = "array"
    /\ MissSuccess(r1) /\ r1 \in arrivedAfter[r2]
    /\ Answered(r2) /\ res[r2].payload = res[r1].payload

(***************************************************************************)
(* C26: if a session request ends with an error response, the store holds  *)
(* no SessionRecord created by that request.                               *)
(***************************************************************************)
C26_ErrorLeavesNoRecord ==
  \A r \in Reqs :
    (IsSession(r) /\ Answered(r) /\ res[r].kind = "error") =>
      /\ cachedSession[r] = NoRecord
      /\ \A i \in DOMAIN sessions : sessions[i] # cachedSession[r]

(***************************************************************************)
(* C27: whenever a session response is served from the cache, the          *)
(* LapRecords of the cached SessionRecord are as many as the laps of the   *)
(* cached payload, also while the request that created the record runs.    *)
(***************************************************************************)
\* r was answered from the cache
Hit(r) ==
  IsSession(r) /\ Answered(r) /\ spawned[r] = 0 /\ res[r].status = 200

C27_HitSeesCompleteLaps ==
  \A r \in Reqs :
    Hit(r) => Len(LapsOf(cachedSession[r].id)) = Len(res[r].payload.laps)

(***************************************************************************)
(* C28: only the miss path of POST /api/f1/session writes to the store: a  *)
(* step that changes the SessionRecords or the LapRecords is a step of a   *)
(* session request whose fetch succeeded, and it only adds records.        *)
(***************************************************************************)
C28_OnlySessionMissWrites ==
  [][ (sessions' # sessions \/ laps' # laps) =>
        /\ \E r \in Reqs :
             /\ IsSession(r) /\ spawned[r] = 1
             /\ promise[r].state = "resolved"
             /\ pc[r] \in {"creating", "laps"}
             /\ \A q \in Reqs \ {r} : pc'[q] = pc[q]
        /\ Len(sessions') >= Len(sessions)
        /\ Len(laps') >= Len(laps)
        /\ SubSeq(sessions', 1, Len(sessions)) = sessions
        /\ SubSeq(laps', 1, Len(laps)) = laps ]_vars

\* the store holds what one miss wrote, after a hit and a request of
\* another route were answered
C28_Witness ==
  \E a, b \in Reqs :
    /\ MissSuccess(a) /\ Len(sessions) = 1 /\ Len(laps) = Len(res[a].payload.laps)
    /\ Answered(b) /\ res[b].status = 200 /\ spawned[b] = 0

(***************************************************************************)
(* C22: if every started process eventually closes or reports an error and *)
(* every store call eventually returns, every accepted request is          *)
(* eventually answered.                                                    *)
(***************************************************************************)
C22_EveryRequestIsAnswered ==
  \A r \in Reqs : (pc[r] # "idle") ~> (res[r].count = 1)

\* answers after a failed process, after a store failure and after a
\* blocking call
C22_Witness ==
  \E a, b \in Reqs :
    /\ res[a].count = 1 /\ Spawned(a) /\ proc[a].state = "closed"
    /\ res[b].count = 1 /\ req[b].route = "analysis"
    /\ a \notin arrivedAfter[b]

(***************************************************************************)
(* C29: in DriverComparison, after any sequence of selections in the two   *)
(* dropdowns and of "Sync with Telemetry" clicks, driver1 and driver2 are  *)
(* never the same non-empty driver.                                        *)
(***************************************************************************)
C29_DriversDiffer ==
  driverComparison.driver1 # "" =>
    driverComparison.driver1 # driverComparison.driver2

(***************************************************************************)
(* C30: in FormulaAnalysis, for session data with at least one lap and     *)
(* with the details shown, driverMetrics is non-empty and sorted ascending *)
(* by bestLap for the whole render, and every driverMetrics[0] that is     *)
(* read is the driver with the fastest lap.                                *)
(***************************************************************************)
\* the fastest timed lap of the session's drivers
FastestLap(sd) ==
  LET timed == SelectSeq(sd.laps, LAMBDA l : l.lapTime > 0
                                             /\ l.driver \in Range(sd.drivers))
  IN MathMin([i \in 1..Len(timed) |-> timed[i].lapTime])

InRender ==
  formulaAnalysis.at \notin {"idle", "render", "nothing"}

C30_DriverMetricsStaySorted ==
  LET f == formulaAnalysis
      dm == f.driverMetrics
  IN (InRender /\ f.showDetails /\ Len(f.sessionData.laps) >= 1) =>
       /\ dm # <<>>
       /\ \A i \in 1..(Len(dm) - 1) : dm[i].bestLap <= dm[i + 1].bestLap
       /\ \A k \in DOMAIN f.leaders :
            f.leaders[k].bestLap = FastestLap(f.sessionData)

====
